---- MODULE Spec2Model ----
(***************************************************************************)
(* Model of AuthorizationCodeWithPkceOidcHandlerBase: the applicability    *)
(* guard, canHandle, and setupRedirectHandler with its two concurrent      *)
(* storage writes (Promise.all) followed by the redirect hand-off.         *)
(*                                                                         *)
(* JavaScript values that may be undefined are records [type, val]; the    *)
(* type field is what `typeof` / `!== undefined` inspect.                  *)
(* setForUser is assumed to return a promise (it never throws              *)
(* synchronously), as its interface declares.                              *)
(*                                                                         *)
(* Model of ISessionEventListener: the typed overloads of on, addListener, *)
(* once, off, removeListener and emit, with type checking as the guard of  *)
(* a call, over an event emitter that keeps one listener list per event    *)
(* name and delivers an emission to a copy of that list.                   *)
(***************************************************************************)
EXTENDS Integers, Sequences, FiniteSets, TLC

\* Number of mutations the caller may apply to one options object.
MaxMutations == 1

\* Number of listener registrations made on one session event emitter.
MaxRegistrations == 2

\* The flow attempts (calls of setupRedirectHandler) of a run.
Calls == {"A", "B"}

-----------------------------------------------------------------------------
\* JavaScript values

\* The value undefined.
Undefined == [ type |-> "undefined" ]

UndefinedBool == [type |-> "undefined", val |-> FALSE]
JSBool(b) == [type |-> "boolean", val |-> b]
UndefinedString == [type |-> "undefined", val |-> ""]
JSString(s) == [type |-> "string", val |-> s]
UndefinedList == [type |-> "undefined", val |-> <<>>]
JSList(l) == [type |-> "object", val |-> l]
UndefinedFunction == [type |-> "undefined", val |-> ""]
JSFunction(f) == [type |-> "function", val |-> f]

\* Boolean(x) for a boolean or undefined x.
ToBoolean(v) == IF v.type = "boolean" THEN v.val ELSE FALSE

\* Boolean.prototype.toString
BooleanToString(b) == IF b THEN "true" ELSE "false"

\* String.prototype.toString (issuer is a string).
StringToString(s) == s.val

\* Array.prototype.indexOf: 0-based index of the first occurrence, -1 if none.
RECURSIVE IndexOfFrom(_, _, _)
IndexOfFrom(list, x, i) ==
  IF i > Len(list) THEN -1
  ELSE IF list[i] = x THEN i - 1
  ELSE IndexOfFrom(list, x, i + 1)

IndexOf(list, x) == IndexOfFrom(list, x, 1)

-----------------------------------------------------------------------------
\* Input domains

GrantLists ==
  { UndefinedList,
    JSList(<<"implicit">>),
    JSList(<<"authorization_code", "refresh_token">>) }
RedirectUrls == { UndefinedString, JSString("https://app.example/cb") }
SessionIds == { "s1", "s2" }
Issuers == { JSString("https://idp.example") }
OptionalBools == { UndefinedBool, JSBool(TRUE), JSBool(FALSE) }
RedirectHandlers == { UndefinedFunction, JSFunction("customHandler") }

\* IOidcOptions
AllOptions ==
  [ issuer : Issuers,
    issuerConfiguration : [ grantTypesSupported : GrantLists ],
    redirectUrl : RedirectUrls,
    sessionId : SessionIds,
    dpop : OptionalBools,
    keepAlive : OptionalBools,
    handleRedirect : RedirectHandlers ]

\* Options of two racing flow attempts: applicable, session chosen freely.
RaceOptions ==
  [ issuer : Issuers,
    issuerConfiguration :
      [ grantTypesSupported :
          { JSList(<<"authorization_code", "refresh_token">>) } ],
    redirectUrl : { JSString("https://app.example/cb") },
    sessionId : SessionIds,
    dpop : { UndefinedBool },
    keepAlive : { UndefinedBool },
    handleRedirect : { UndefinedFunction } ]

\* OAuth state values; "s1" is a developer-chosen state equal to a session id.
States == { "xyz", "s1" }
\* State values of racing attempts: random, none of them a session id.
RaceStates == { "xyz", "abc" }
CodeVerifiers == { "verifier123", "verifier456" }
TargetUrls == { "https://idp.example/authorize?x" }

\* Storage as left by an earlier, finished flow of session s1.
PriorStorage ==
  ( "old" :> [ sessionId |-> "s1" ] ) @@
  ( "s1" :> [ codeVerifier |-> "verifier0",
              issuer |-> "https://idp.example",
              redirectUrl |-> "https://app.example/cb",
              dpop |-> "false",
              keepAlive |-> "true" ] )

-----------------------------------------------------------------------------
\* Session events: the typed registration contract

\* The members of EVENTS the interface names, in the order of declaration.
Channels ==
  << "LOGIN", "LOGOUT", "SESSION_EXPIRED", "SESSION_RESTORED", "ERROR",
     "SESSION_EXTENDED", "TIMEOUT_SET", "NEW_REFRESH_TOKEN", "NEW_TOKENS",
     "AUTHORIZATION_REQUEST" >>

ChannelSet == { Channels[n] : n \in DOMAIN Channels }

\* Variant: the deprecated channel and its successor are one event name.
EVENTS_TokenChannelsShareName ==
  [ ch \in ChannelSet |->
      IF ch = "NEW_REFRESH_TOKEN" THEN "NEW_TOKENS" ELSE ch ]

\* The event name each member of EVENTS stands for: one name per channel.
EVENTS == [ ch \in ChannelSet |-> ch ]

\* An event name that is no member of EVENTS.
UnlistedChannel == "CUSTOM"

\* The event name a consumer passes when it refers to a channel.
NameOf(ch) == IF ch \in ChannelSet THEN EVENTS[ch] ELSE ch

\* string | symbol: every event name.
EventNames == { NameOf(ch) : ch \in ChannelSet \cup { UnlistedChannel } }

\* A function type is the list of its parameter types, each the set of the
\* kinds of value it admits (return types void and unknown admit any value).
FunctionType(params) == [ kind |-> "function", params |-> params ]

\* The type never.
NeverType == [ kind |-> "never", params |-> <<>> ]

\* The type (...args: any[]) => void.
AnyFunctionType == [ kind |-> "any", params |-> <<>> ]

\* A function value of type S may be passed for a parameter of type T: T
\* takes any function, or S takes no more parameters than T supplies and
\* accepts every value T supplies at each of them. No function value may be
\* passed for never.
Assignable(S, T) ==
  /\ S.kind = "function"
  /\ \/ T.kind = "any"
     \/ /\ T.kind = "function"
        /\ Len(S.params) <= Len(T.params)
        /\ \A n \in 1..Len(S.params) : T.params[n] \subseteq S.params[n]

LOGIN_ARGS ==
  [ eventName |-> { EVENTS.LOGIN }, listener |-> FunctionType(<<>>) ]
LOGOUT_ARGS ==
  [ eventName |-> { EVENTS.LOGOUT }, listener |-> FunctionType(<<>>) ]
SESSION_EXPIRED_ARGS ==
  [ eventName |-> { EVENTS.SESSION_EXPIRED }, listener |-> FunctionType(<<>>) ]
SESSION_RESTORED_ARGS ==
  [ eventName |-> { EVENTS.SESSION_RESTORED },
    listener |-> FunctionType(<< { "string" } >>) ]
ERROR_ARGS ==
  [ eventName |-> { EVENTS.ERROR },
    listener |-> FunctionType(<< { "string", "null" },
                                 { "string", "Error", "null", "undefined" } >>) ]
SESSION_EXTENDED_ARGS ==
  [ eventName |-> { EVENTS.SESSION_EXTENDED },
    listener |-> FunctionType(<< { "number" } >>) ]
TIMEOUT_SET_ARGS ==
  [ eventName |-> { EVENTS.TIMEOUT_SET },
    listener |-> FunctionType(<< { "number" } >>) ]
NEW_REFRESH_TOKEN_ARGS ==
  [ eventName |-> { EVENTS.NEW_REFRESH_TOKEN },
    listener |-> FunctionType(<< { "string" } >>) ]
NEW_TOKENS_ARGS ==
  [ eventName |-> { EVENTS.NEW_TOKENS },
    listener |-> FunctionType(<< { "SessionTokenSet" } >>) ]
AUTH_STATE_ARGS ==
  [ eventName |-> { EVENTS.AUTHORIZATION_REQUEST },
    listener |-> FunctionType(<< { "AuthorizationRequestState" } >>) ]

\* The listener type of each channel.
ARGS ==
  [ LOGIN |-> LOGIN_ARGS, LOGOUT |-> LOGOUT_ARGS,
    SESSION_EXPIRED |-> SESSION_EXPIRED_ARGS,
    SESSION_RESTORED |-> SESSION_RESTORED_ARGS, ERROR |-> ERROR_ARGS,
    SESSION_EXTENDED |-> SESSION_EXTENDED_ARGS,
    TIMEOUT_SET |-> TIMEOUT_SET_ARGS,
    NEW_REFRESH_TOKEN |-> NEW_REFRESH_TOKEN_ARGS,
    NEW_TOKENS |-> NEW_TOKENS_ARGS,
    AUTHORIZATION_REQUEST |-> AUTH_STATE_ARGS ]

\* Variant: the fallback takes any listener, as EventEmitter does.
FALLBACK_ARGS_AnyListener ==
  [ eventName |-> EventNames, listener |-> AnyFunctionType ]

FALLBACK_ARGS == [ eventName |-> EventNames, listener |-> NeverType ]

\* The overloads of each registration method, in the order of declaration.
on ==
  << LOGIN_ARGS, LOGOUT_ARGS, SESSION_EXPIRED_ARGS, SESSION_RESTORED_ARGS,
     ERROR_ARGS, SESSION_EXTENDED_ARGS, TIMEOUT_SET_ARGS,
     NEW_REFRESH_TOKEN_ARGS, NEW_TOKENS_ARGS, AUTH_STATE_ARGS,
     FALLBACK_ARGS >>
addListener ==
  << LOGIN_ARGS, LOGOUT_ARGS, SESSION_EXPIRED_ARGS, SESSION_RESTORED_ARGS,
     ERROR_ARGS, SESSION_EXTENDED_ARGS, TIMEOUT_SET_ARGS,
     NEW_REFRESH_TOKEN_ARGS, NEW_TOKENS_ARGS, AUTH_STATE_ARGS,
     FALLBACK_ARGS >>
once ==
  << LOGIN_ARGS, LOGOUT_ARGS, SESSION_EXPIRED_ARGS, SESSION_RESTORED_ARGS,
     ERROR_ARGS, SESSION_EXTENDED_ARGS, TIMEOUT_SET_ARGS,
     NEW_REFRESH_TOKEN_ARGS, NEW_TOKENS_ARGS, AUTH_STATE_ARGS,
     FALLBACK_ARGS >>
off ==
  << LOGIN_ARGS, LOGOUT_ARGS, SESSION_EXPIRED_ARGS, SESSION_RESTORED_ARGS,
     ERROR_ARGS, SESSION_EXTENDED_ARGS, TIMEOUT_SET_ARGS,
     NEW_REFRESH_TOKEN_ARGS, NEW_TOKENS_ARGS, AUTH_STATE_ARGS,
     FALLBACK_ARGS >>
removeListener ==
  << LOGIN_ARGS, LOGOUT_ARGS, SESSION_EXPIRED_ARGS, SESSION_RESTORED_ARGS,
     ERROR_ARGS, SESSION_EXTENDED_ARGS, TIMEOUT_SET_ARGS,
     NEW_REFRESH_TOKEN_ARGS, NEW_TOKENS_ARGS, AUTH_STATE_ARGS,
     FALLBACK_ARGS >>

\* emit(eventName: never, ...args: never): the event names it takes.
emit == [ eventName |-> {}, args |-> NeverType ]

ISessionEventListener ==
  [ on |-> on, addListener |-> addListener, once |-> once, off |-> off,
    removeListener |-> removeListener ]

\* Overload resolution of a call method(eventName, listener): some overload
\* takes the event name and the listener.
Accepts(method, eventName, listener) ==
  \E n \in DOMAIN ISessionEventListener[method] :
    /\ eventName \in ISessionEventListener[method][n].eventName
    /\ Assignable(listener, ISessionEventListener[method][n].listener)

\* A call emit(eventName, ...args) through the interface.
AcceptsEmit(eventName) == eventName \in emit.eventName

\* The listener functions of the consumer, with their types.
ListenerType ==
  [ onNewTokens |-> FunctionType(<< { "SessionTokenSet" } >>),
    onString |-> FunctionType(<< { "string" } >>) ]

Listeners == DOMAIN ListenerType

\* SessionTokenSet objects (by identity).
SessionTokenSets == { "tokenSet1", "tokenSet2" }

\* The argument lists the system emits on a channel.
Arguments(ch) ==
  IF ch = "NEW_TOKENS" THEN { << t >> : t \in SessionTokenSets }
  ELSE IF ch \in { "LOGIN", "LOGOUT", "SESSION_EXPIRED" } THEN { <<>> }
  ELSE { << ch >> }

NoEmission ==
  [ active |-> FALSE, channel |-> "", eventName |-> "", args |-> <<>>,
    snapshot |-> <<>>, atStart |-> <<>>, next |-> 1 ]

-----------------------------------------------------------------------------
\* Errors

NoError == <<>>
GuardError == <<"Error", "The authorization code grant requires a redirectUrl.">>
WriteError(c, i) == <<"setForUser", c, i>>
RedirectError(c) == <<"redirect", c>>

-----------------------------------------------------------------------------
VARIABLES
  opts,            \* the caller's options object of each flow attempt (mutable)
  mutations,       \* number of mutations applied to each options object
  canHandleResult, \* values canHandle returned, per flow attempt
  pc,              \* position of each setupRedirectHandler call
  args,            \* state, codeVerifier, targetUrl of each call
  optionsAtCall,   \* the options as they were when the call was made
  writes,          \* the setForUser promises passed to Promise.all
  all,             \* the Promise.all promise of each call
  storage,         \* durable storage: key -> record
  lastWrite,       \* which call's write each storage key holds
  settleOrder,     \* indices of a call's writes in the order they settled
  redirects,       \* invocations of redirector.redirect, per call
  error,           \* the failure a call was rejected with
  result,          \* the values a call's promise was fulfilled with
  registry,        \* event name -> registrations in the emitter's list
  regs,            \* every registration made, with what happened to it
  emission,        \* the emission in progress
  invocations      \* listener invocations of the emission in progress

handlerVars ==
  << opts, mutations, canHandleResult, pc, args, optionsAtCall, writes, all,
     storage, lastWrite, settleOrder, redirects, error, result >>

eventVars == << registry, regs, emission, invocations >>

vars == << handlerVars, eventVars >>

NoArgs == [ state |-> "", codeVerifier |-> "", targetUrl |-> "" ]

InitWith(options, active) ==
  /\ opts \in [ Calls -> options ]
  /\ \A c \in Calls \ active : opts[c] = CHOOSE o \in options : TRUE
  /\ mutations = [ c \in Calls |-> 0 ]
  /\ canHandleResult = [ c \in Calls |-> <<>> ]
  /\ pc = [ c \in Calls |-> IF c \in active THEN "idle" ELSE "unused" ]
  /\ args = [ c \in Calls |-> NoArgs ]
  /\ optionsAtCall = opts
  /\ writes = [ c \in Calls |-> <<>> ]
  /\ all = [ c \in Calls |-> [ status |-> "none", reason |-> NoError ] ]
  /\ storage = PriorStorage
  /\ lastWrite = [ k \in DOMAIN PriorStorage |-> "prior" ]
  /\ settleOrder = [ c \in Calls |-> <<>> ]
  /\ redirects = [ c \in Calls |-> <<>> ]
  /\ error = [ c \in Calls |-> NoError ]
  /\ result = [ c \in Calls |-> <<>> ]
  /\ registry = [ name \in EventNames |-> <<>> ]
  /\ regs = <<>>
  /\ emission = NoEmission
  /\ invocations = <<>>

-----------------------------------------------------------------------------
\* The handler

\* Variant: the grant is looked for with indexOf(...) > 0.
parametersGuard_IndexPositive(oidcLoginOptions) ==
  /\ oidcLoginOptions.issuerConfiguration.grantTypesSupported.type # "undefined"
  /\ IndexOf(oidcLoginOptions.issuerConfiguration.grantTypesSupported.val,
             "authorization_code") > 0
  /\ oidcLoginOptions.redirectUrl.type # "undefined"

\* Variant: the redirectUrl is not looked at.
parametersGuard_IgnoresRedirectUrl(oidcLoginOptions) ==
  /\ oidcLoginOptions.issuerConfiguration.grantTypesSupported.type # "undefined"
  /\ IndexOf(oidcLoginOptions.issuerConfiguration.grantTypesSupported.val,
             "authorization_code") > -1

parametersGuard(oidcLoginOptions) ==
  /\ oidcLoginOptions.issuerConfiguration.grantTypesSupported.type # "undefined"
  /\ IndexOf(oidcLoginOptions.issuerConfiguration.grantTypesSupported.val,
             "authorization_code") > -1
  /\ oidcLoginOptions.redirectUrl.type # "undefined"

\* Variant: an unspecified value is coerced instead of replaced.
booleanWithFallback_CoercesUndefined(value, fallback) ==
  ToBoolean(value)

booleanWithFallback(value, fallback) ==
  IF value.type = "boolean" THEN value.val ELSE fallback

\* canHandle: returns the guard's value for the options as they are now.
CanHandle(c) ==
  /\ pc[c] = "idle"
  /\ canHandleResult[c] = <<>>
  /\ canHandleResult' =
       [ canHandleResult EXCEPT
           ![c] = Append(@, [ options |-> opts[c],
                              value |-> parametersGuard(opts[c]) ]) ]
  /\ UNCHANGED << opts, mutations, pc, args, optionsAtCall, writes, all,
                  storage, lastWrite, settleOrder, redirects, error,
                  result >>
  /\ UNCHANGED eventVars

\* Two options values that differ in exactly one field.
OneFieldApart(o1, o2) ==
  Cardinality({ f \in DOMAIN o1 : o1[f] # o2[f] }) = 1

\* The caller assigns one field of its options object after the handler has
\* seen it: between canHandle and the call, or while the call is suspended.
\* (A mutation before the first use is another initial options value.)
MutateOptions(c, o) ==
  /\ \/ pc[c] = "idle" /\ canHandleResult[c] # <<>>
     \/ pc[c] = "awaiting"
  /\ mutations[c] < MaxMutations
  /\ OneFieldApart(opts[c], o)
  /\ opts' = [ opts EXCEPT ![c] = o ]
  /\ mutations' = [ mutations EXCEPT ![c] = @ + 1 ]
  /\ UNCHANGED << canHandleResult, pc, args, optionsAtCall, writes, all,
                  storage, lastWrite, settleOrder, redirects, error,
                  result >>
  /\ UNCHANGED eventVars

\* The record stored under the OAuth state.
StateRecord(oidcLoginOptions) ==
  [ sessionId |-> oidcLoginOptions.sessionId ]

\* Variant: dpop gets the same default as keepAlive.
SessionRecord_DpopDefaultsTrue(oidcLoginOptions, codeVerifier) ==
  [ codeVerifier |-> codeVerifier,
    issuer |-> StringToString(oidcLoginOptions.issuer),
    redirectUrl |-> oidcLoginOptions.redirectUrl.val,
    dpop |-> BooleanToString(booleanWithFallback(oidcLoginOptions.dpop, TRUE)),
    keepAlive |->
      BooleanToString(booleanWithFallback(oidcLoginOptions.keepAlive, TRUE)) ]

\* The record stored under the session id.
SessionRecord(oidcLoginOptions, codeVerifier) ==
  [ codeVerifier |-> codeVerifier,
    issuer |-> StringToString(oidcLoginOptions.issuer),
    redirectUrl |-> oidcLoginOptions.redirectUrl.val,
    dpop |-> BooleanToString(ToBoolean(oidcLoginOptions.dpop)),
    keepAlive |->
      BooleanToString(booleanWithFallback(oidcLoginOptions.keepAlive, TRUE)) ]

\* A setForUser call: the promise it returns, still pending.
SetForUserCall(key, value) ==
  [ key |-> key, value |-> value, status |-> "pending" ]

\* Variant: the session record is not written.
IssuedWrites_NoSessionRecord(oidcLoginOptions, state, codeVerifier) ==
  << SetForUserCall(state, StateRecord(oidcLoginOptions)) >>

\* Variant: the indirection is collapsed, both records go under the state.
IssuedWrites_BothUnderState(oidcLoginOptions, state, codeVerifier) ==
  << SetForUserCall(state, StateRecord(oidcLoginOptions)),
     SetForUserCall(state, SessionRecord(oidcLoginOptions, codeVerifier)) >>

\* Variant: the two records are stored under each other's key.
IssuedWrites_KeysSwapped(oidcLoginOptions, state, codeVerifier) ==
  << SetForUserCall(oidcLoginOptions.sessionId, StateRecord(oidcLoginOptions)),
     SetForUserCall(state, SessionRecord(oidcLoginOptions, codeVerifier)) >>

\* Variant: a third record is written.
IssuedWrites_ExtraWrite(oidcLoginOptions, state, codeVerifier) ==
  << SetForUserCall(state, StateRecord(oidcLoginOptions)),
     SetForUserCall(oidcLoginOptions.sessionId,
                    SessionRecord(oidcLoginOptions, codeVerifier)),
     SetForUserCall(codeVerifier, StateRecord(oidcLoginOptions)) >>

\* The array of promises handed to Promise.all.
IssuedWrites(oidcLoginOptions, state, codeVerifier) ==
  << SetForUserCall(state, StateRecord(oidcLoginOptions)),
     SetForUserCall(oidcLoginOptions.sessionId,
                    SessionRecord(oidcLoginOptions, codeVerifier)) >>

\* setupRedirectHandler up to its first suspension point: the guard, then
\* both setForUser calls and the await on Promise.all.
SetupRedirectHandler(c, state, codeVerifier, targetUrl) ==
  /\ pc[c] = "idle"
  /\ args' = [ args EXCEPT ![c] = [ state |-> state,
                                    codeVerifier |-> codeVerifier,
                                    targetUrl |-> targetUrl ] ]
  /\ optionsAtCall' = [ optionsAtCall EXCEPT ![c] = opts[c] ]
  /\ IF ~ parametersGuard(opts[c])
       THEN /\ pc' = [ pc EXCEPT ![c] = "failed" ]
            /\ error' = [ error EXCEPT ![c] = GuardError ]
            /\ UNCHANGED << writes, all >>
       ELSE /\ writes' = [ writes EXCEPT
                             ![c] = IssuedWrites(opts[c], state, codeVerifier) ]
            /\ all' = [ all EXCEPT ![c] = [ status |-> "pending",
                                            reason |-> NoError ] ]
            /\ pc' = [ pc EXCEPT ![c] = "awaiting" ]
            /\ UNCHANGED error
  /\ UNCHANGED << opts, mutations, canHandleResult, storage, lastWrite,
                  settleOrder, redirects, result >>
  /\ UNCHANGED eventVars

\* Storage collaborator: a successful setForUser leaves the record at the key.
setForUser(store, key, value) ==
  [ k \in DOMAIN store \cup { key } |-> IF k = key THEN value ELSE store[k] ]

\* Variant: fulfils as soon as one input is fulfilled.
PromiseAll_FulfilsOnFirst(promise, inputs, i, reason) ==
  IF promise.status # "pending" THEN promise
  ELSE IF inputs[i].status = "rejected"
    THEN [ status |-> "rejected", reason |-> reason ]
  ELSE [ status |-> "fulfilled", reason |-> NoError ]

\* Variant: waits for every input to settle and then fulfils, whatever the
\* inputs' outcomes.
PromiseAll_AllSettled(promise, inputs, i, reason) ==
  IF promise.status # "pending" THEN promise
  ELSE IF \A j \in DOMAIN inputs : inputs[j].status # "pending"
    THEN [ status |-> "fulfilled", reason |-> NoError ]
  ELSE promise

\* Variant: fulfils with the first fulfilled input and rejects only when
\* every input is rejected (Promise.any).
PromiseAll_Any(promise, inputs, i, reason) ==
  IF promise.status # "pending" THEN promise
  ELSE IF inputs[i].status = "fulfilled"
    THEN [ status |-> "fulfilled", reason |-> NoError ]
  ELSE IF \A j \in DOMAIN inputs : inputs[j].status = "rejected"
    THEN [ status |-> "rejected", reason |-> reason ]
  ELSE promise

\* Variant: a rejected input is ignored, so the promise stays pending.
PromiseAll_IgnoresRejection(promise, inputs, i, reason) ==
  IF promise.status # "pending" THEN promise
  ELSE IF \A j \in DOMAIN inputs : inputs[j].status = "fulfilled"
    THEN [ status |-> "fulfilled", reason |-> NoError ]
  ELSE promise

\* Variant: a later rejection replaces the reason of an earlier one.
PromiseAll_LastRejection(promise, inputs, i, reason) ==
  IF inputs[i].status = "rejected"
    THEN [ status |-> "rejected", reason |-> reason ]
  ELSE IF promise.status # "pending" THEN promise
  ELSE IF \A j \in DOMAIN inputs : inputs[j].status = "fulfilled"
    THEN [ status |-> "fulfilled", reason |-> NoError ]
  ELSE promise

\* Promise.all: rejects with the first rejection of an input, fulfils once
\* every input is fulfilled, and is settled at most once.
PromiseAll(promise, inputs, i, reason) ==
  IF promise.status # "pending" THEN promise
  ELSE IF inputs[i].status = "rejected"
    THEN [ status |-> "rejected", reason |-> reason ]
  ELSE IF \A j \in DOMAIN inputs : inputs[j].status = "fulfilled"
    THEN [ status |-> "fulfilled", reason |-> NoError ]
  ELSE promise

\* Variant: the key and the record are read from the options object when the
\* write is carried out.
WriteArguments_ReadAtSettle(c, i) ==
  IssuedWrites(opts[c], args[c].state, args[c].codeVerifier)[i]

\* The key and the record a setForUser call was given: argument values,
\* evaluated when the call was made.
WriteArguments(c, i) == writes[c][i]

\* The storage collaborator settles one pending write, with success or failure.
SettleWrite(c, i, ok) ==
  /\ i \in DOMAIN writes[c]
  /\ writes[c][i].status = "pending"
  /\ LET settled == [ writes[c] EXCEPT
                        ![i].status = IF ok THEN "fulfilled" ELSE "rejected" ]
     IN /\ writes' = [ writes EXCEPT ![c] = settled ]
        /\ all' = [ all EXCEPT
                      ![c] = PromiseAll(@, settled, i, WriteError(c, i)) ]
  /\ IF ok
       THEN /\ storage' = setForUser(storage, WriteArguments(c, i).key,
                                     WriteArguments(c, i).value)
            /\ lastWrite' =
                 [ k \in DOMAIN lastWrite \cup { WriteArguments(c, i).key } |->
                     IF k = WriteArguments(c, i).key THEN c ELSE lastWrite[k] ]
       ELSE UNCHANGED << storage, lastWrite >>
  /\ settleOrder' = [ settleOrder EXCEPT ![c] = Append(@, i) ]
  /\ UNCHANGED << opts, mutations, canHandleResult, pc, args, optionsAtCall,
                  redirects, error, result >>
  /\ UNCHANGED eventVars

\* Variant: the custom redirect handler is not passed on.
RedirectCall_DropsHandler(targetUrl, oidcLoginOptions) ==
  [ targetUrl |-> targetUrl,
    options |-> [ handleRedirect |-> UndefinedFunction ] ]

\* The argument list of redirector.redirect.
RedirectCall(targetUrl, oidcLoginOptions) ==
  [ targetUrl |-> targetUrl,
    options |-> [ handleRedirect |-> oidcLoginOptions.handleRedirect ] ]

\* setupRedirectHandler after the await: a rejected Promise.all is rethrown;
\* otherwise the redirector is invoked (it may throw) and the call returns.
AfterWrites(c, redirectThrows) ==
  /\ pc[c] = "awaiting"
  /\ all[c].status # "pending"
  /\ IF all[c].status = "rejected"
       THEN /\ pc' = [ pc EXCEPT ![c] = "failed" ]
            /\ error' = [ error EXCEPT ![c] = all[c].reason ]
            /\ UNCHANGED << redirects, result >>
       ELSE /\ redirects' =
                 [ redirects EXCEPT
                     ![c] = Append(@, RedirectCall(args[c].targetUrl, opts[c])) ]
            /\ IF redirectThrows
                 THEN /\ pc' = [ pc EXCEPT ![c] = "failed" ]
                      /\ error' = [ error EXCEPT ![c] = RedirectError(c) ]
                      /\ UNCHANGED result
                 ELSE /\ pc' = [ pc EXCEPT ![c] = "resolved" ]
                      /\ result' = [ result EXCEPT ![c] = << Undefined >> ]
                      /\ UNCHANGED error
  /\ UNCHANGED << opts, mutations, canHandleResult, args, optionsAtCall,
                  writes, all, storage, lastWrite, settleOrder >>
  /\ UNCHANGED eventVars

-----------------------------------------------------------------------------
\* Session events: registration and emission

\* The emitter adds a registration at the end of the list of its event name.
AddListener(list, r) == Append(list, r)

\* The list without its element at position n.
RemoveAt(list, n) ==
  [ m \in 1..(Len(list) - 1) |-> IF m < n THEN list[m] ELSE list[m + 1] ]

\* Positions in the list of the registrations of a listener function.
PositionsOf(list, fn) ==
  { n \in DOMAIN list : regs[list[n]].listener = fn }

\* The list without registration r, if it is there.
Without(list, r) ==
  IF \E n \in DOMAIN list : list[n] = r
    THEN RemoveAt(list, CHOOSE n \in DOMAIN list : list[n] = r)
    ELSE list

\* Variant: a one-shot registration stays in the list when it is invoked.
AfterInvocation_KeepsOnce(list, r, oneShot) == list

\* The list of an event name after registration r was invoked: a one-shot
\* registration has removed itself.
AfterInvocation(list, r, oneShot) ==
  IF oneShot THEN Without(list, r) ELSE list

\* Variant: delivery walks the emitter's list itself.
DeliveryList_Live(snapshot, live) == live

\* The registrations an emission delivers to: the copy of the list taken
\* when the emission started.
DeliveryList(snapshot, live) == snapshot

\* Registrations a channel is due to invoke, in registration order: made on
\* the channel, not removed since, and not a one-shot that has fired.
RegisteredOn(ch) ==
  LET S == { r \in DOMAIN regs :
               /\ regs[r].channel = ch
               /\ ~ regs[r].removed
               /\ ~ (regs[r].once /\ regs[r].fired > 0) }
  IN [ n \in 1..Cardinality(S) |->
         CHOOSE r \in S : Cardinality({ q \in S : q < r }) = n - 1 ]

\* on / addListener / once (eventName, listener), called by the consumer,
\* also from inside a listener while an emission is being delivered. A call
\* the type checker refuses is not part of any program.
Register(method, ch, fn, oneShot) ==
  /\ Len(regs) < MaxRegistrations
  /\ Accepts(method, NameOf(ch), ListenerType[fn])
  /\ regs' = Append(regs, [ method |-> method, listener |-> fn,
                            channel |-> ch, once |-> oneShot,
                            removed |-> FALSE, fired |-> 0 ])
  /\ registry' = [ registry EXCEPT
                     ![NameOf(ch)] = AddListener(@, Len(regs) + 1) ]
  /\ UNCHANGED << emission, invocations >>
  /\ UNCHANGED handlerVars

On(method, ch, fn) ==
  /\ method \in { "on", "addListener" }
  /\ Register(method, ch, fn, FALSE)

Once(ch, fn) ==
  /\ fn \in Listeners
  /\ Register("once", ch, fn, TRUE)

\* off / removeListener (eventName, listener): the most recently added
\* registration of the listener on the event name is removed.
Off(method, ch, fn) ==
  /\ method \in { "off", "removeListener" }
  /\ Accepts(method, NameOf(ch), ListenerType[fn])
  /\ PositionsOf(registry[NameOf(ch)], fn) # {}
  /\ LET list == registry[NameOf(ch)]
         n == CHOOSE m \in PositionsOf(list, fn) :
                \A k \in PositionsOf(list, fn) : k <= m
     IN /\ registry' = [ registry EXCEPT ![NameOf(ch)] = RemoveAt(list, n) ]
        /\ regs' = [ regs EXCEPT ![list[n]].removed = TRUE ]
  /\ UNCHANGED << emission, invocations >>
  /\ UNCHANGED handlerVars

\* The system emits on a channel: the list of the event name is copied.
EmitStart(ch, arguments) ==
  /\ ~ emission.active
  /\ emission' = [ active |-> TRUE, channel |-> ch, eventName |-> EVENTS[ch],
                   args |-> arguments, snapshot |-> registry[EVENTS[ch]],
                   atStart |-> RegisteredOn(ch), next |-> 1 ]
  /\ invocations' = <<>>
  /\ UNCHANGED << registry, regs >>
  /\ UNCHANGED handlerVars

\* The emission invokes the next listener with the emitted arguments.
Deliver ==
  /\ emission.active
  /\ LET list == DeliveryList(emission.snapshot, registry[emission.eventName])
     IN /\ emission.next <= Len(list)
        /\ LET r == list[emission.next]
           IN /\ registry' =
                   [ registry EXCEPT
                       ![emission.eventName] =
                          AfterInvocation(@, r, regs[r].once) ]
              /\ regs' = [ regs EXCEPT
                             ![r].fired = IF regs[r].once THEN @ + 1 ELSE @ ]
              /\ invocations' =
                   Append(invocations, [ registration |-> r,
                                         listener |-> regs[r].listener,
                                         args |-> emission.args ])
  /\ emission' = [ emission EXCEPT !.next = @ + 1 ]
  /\ UNCHANGED handlerVars

\* Every listener of the copy has been invoked: emit returns.
EmitReturn ==
  /\ emission.active
  /\ emission.next >
       Len(DeliveryList(emission.snapshot, registry[emission.eventName]))
  /\ emission' = NoEmission
  /\ invocations' = <<>>
  /\ UNCHANGED << registry, regs >>
  /\ UNCHANGED handlerVars

-----------------------------------------------------------------------------
\* One flow attempt, any options, options mutable by the caller.

Init == InitWith(AllOptions, { "A" })

Next ==
  \/ \E c \in Calls : CanHandle(c)
  \/ \E c \in Calls, o \in AllOptions : MutateOptions(c, o)
  \/ \E c \in Calls, state \in States, codeVerifier \in CodeVerifiers,
        targetUrl \in TargetUrls :
       SetupRedirectHandler(c, state, codeVerifier, targetUrl)
  \/ \E c \in Calls, i \in 1..2, ok \in BOOLEAN : SettleWrite(c, i, ok)
  \/ \E c \in Calls, redirectThrows \in BOOLEAN : AfterWrites(c, redirectThrows)

Spec == Init /\ [][Next]_vars

\* Two flow attempts racing on the same storage.

InitRace == InitWith(RaceOptions, Calls)

NextRace ==
  \/ \E c \in Calls, state \in RaceStates, codeVerifier \in CodeVerifiers,
        targetUrl \in TargetUrls :
       SetupRedirectHandler(c, state, codeVerifier, targetUrl)
  \/ \E c \in Calls, i \in 1..2, ok \in BOOLEAN : SettleWrite(c, i, ok)
  \/ \E c \in Calls, redirectThrows \in BOOLEAN : AfterWrites(c, redirectThrows)

SpecRace == InitRace /\ [][NextRace]_vars

\* The racing flow attempts when every storage write eventually settles and
\* the event loop eventually runs every continuation that is ready.
FairRace ==
  /\ \A c \in Calls, i \in 1..2 :
       WF_vars(\E ok \in BOOLEAN : SettleWrite(c, i, ok))
  /\ \A c \in Calls :
       WF_vars(\E redirectThrows \in BOOLEAN : AfterWrites(c, redirectThrows))

SpecRaceLive == InitRace /\ [][NextRace]_vars /\ FairRace

-----------------------------------------------------------------------------
\* One session event emitter, its consumer and the system that emits.

InitEvents ==
  InitWith({ CHOOSE o \in RaceOptions : TRUE }, {})

NextEvents ==
  \/ \E method \in { "on", "addListener" },
        ch \in ChannelSet \cup { UnlistedChannel }, fn \in Listeners :
       On(method, ch, fn)
  \/ \E ch \in ChannelSet \cup { UnlistedChannel }, fn \in Listeners :
       Once(ch, fn)
  \/ \E method \in { "off", "removeListener" },
        ch \in ChannelSet \cup { UnlistedChannel }, fn \in Listeners :
       Off(method, ch, fn)
  \/ \E ch \in ChannelSet : \E arguments \in Arguments(ch) :
       EmitStart(ch, arguments)
  \/ Deliver
  \/ EmitReturn

SpecEvents == InitEvents /\ [][NextEvents]_vars

-----------------------------------------------------------------------------
\* Vocabulary of the properties

\* The flow is applicable to the options: the advertised grant list is
\* defined and has "authorization_code" among its elements, and a redirect
\* URL is defined.
Applicable(o) ==
  /\ o.issuerConfiguration.grantTypesSupported.type = "object"
  /\ \E n \in DOMAIN o.issuerConfiguration.grantTypesSupported.val :
       o.issuerConfiguration.grantTypesSupported.val[n] = "authorization_code"
  /\ o.redirectUrl.type = "string"

Called(c) == pc[c] \in { "awaiting", "resolved", "failed" }
Returned(c) == pc[c] \in { "resolved", "failed" }
IsStateRecord(r) == DOMAIN r = { "sessionId" }
IsSessionRecord(r) ==
  DOMAIN r = { "codeVerifier", "issuer", "redirectUrl", "dpop", "keepAlive" }
WriteStatus(c, i) == IF i \in DOMAIN writes[c] THEN writes[c][i].status ELSE "unissued"
BothWritesFulfilled(c) ==
  /\ writes[c] # <<>>
  /\ \A i \in DOMAIN writes[c] : writes[c][i].status = "fulfilled"
SomeWriteRejected(c) ==
  \E i \in DOMAIN writes[c] : writes[c][i].status = "rejected"

-----------------------------------------------------------------------------
\* C1: every value canHandle returned is a boolean, and it is TRUE exactly
\* when the options it was given have a defined grant list containing
\* "authorization_code" and a defined redirectUrl; canHandle never fails.
C1_CanHandleIffApplicable ==
  \A c \in Calls :
    \A n \in DOMAIN canHandleResult[c] :
      /\ canHandleResult[c][n].value \in BOOLEAN
      /\ canHandleResult[c][n].value = Applicable(canHandleResult[c][n].options)

\* canHandle returned false for options whose issuer supports the grant
\* but which carry no redirectUrl.
C1_Witness ==
  \E c \in Calls :
    /\ canHandleResult[c] # <<>>
    /\ canHandleResult[c][1].value = FALSE
    /\ canHandleResult[c][1].options.redirectUrl = UndefinedString
    /\ canHandleResult[c][1].options.issuerConfiguration.grantTypesSupported
         = JSList(<<"authorization_code", "refresh_token">>)

\* C2: a setupRedirectHandler call on inapplicable options has failed with
\* the guard's error, has issued no storage write and has not invoked the
\* redirector, and storage is as it was before the call; also when canHandle
\* returned true on the options object before it became inapplicable.
C2_InapplicableFailsBeforeSideEffects ==
  \A c \in Calls :
    (Called(c) /\ ~ Applicable(optionsAtCall[c])) =>
      /\ pc[c] = "failed"
      /\ error[c] = GuardError
      /\ writes[c] = <<>>
      /\ settleOrder[c] = <<>>
      /\ redirects[c] = <<>>
      /\ storage = PriorStorage

\* canHandle answered true, the options then lost their redirectUrl, and the
\* setupRedirectHandler call made afterwards failed.
C2_Witness ==
  \E c \in Calls :
    /\ canHandleResult[c] # <<>>
    /\ canHandleResult[c][1].value = TRUE
    /\ pc[c] = "failed"
    /\ error[c] = GuardError
    /\ optionsAtCall[c].redirectUrl = UndefinedString

\* C3 as stated: after a call resolves, storage holds at key state a record
\* whose sessionId is options.sessionId, and at key options.sessionId a
\* record with the given codeVerifier and options.redirectUrl, also when
\* state and options.sessionId are the same string.
C3_Original ==
  \A c \in Calls :
    pc[c] = "resolved" =>
      LET sid == optionsAtCall[c].sessionId IN
      /\ args[c].state \in DOMAIN storage
      /\ "sessionId" \in DOMAIN storage[args[c].state]
      /\ storage[args[c].state].sessionId = sid
      /\ sid \in DOMAIN storage
      /\ "codeVerifier" \in DOMAIN storage[sid]
      /\ storage[sid].codeVerifier = args[c].codeVerifier
      /\ storage[sid].redirectUrl = optionsAtCall[c].redirectUrl.val

\* C3 amended: the two records are both in storage after the call resolves
\* when state differs from options.sessionId; when they are equal the one
\* key holds only one of the two records.
C3_RecordsStoredWhenKeysDiffer ==
  \A c \in Calls :
    pc[c] = "resolved" =>
      LET sid == optionsAtCall[c].sessionId IN
      /\ args[c].state \in DOMAIN storage
      /\ sid \in DOMAIN storage
      /\ args[c].state # sid =>
           /\ IsStateRecord(storage[args[c].state])
           /\ storage[args[c].state].sessionId = sid
           /\ IsSessionRecord(storage[sid])
           /\ storage[sid].codeVerifier = args[c].codeVerifier
           /\ optionsAtCall[c].redirectUrl.type = "string"
           /\ storage[sid].redirectUrl = optionsAtCall[c].redirectUrl.val
      /\ args[c].state = sid =>
           \/ /\ IsStateRecord(storage[sid])
              /\ storage[sid].sessionId = sid
           \/ /\ IsSessionRecord(storage[sid])
              /\ storage[sid].codeVerifier = args[c].codeVerifier

\* A resolved call of session s2 under state xyz, both records stored.
C3_Witness ==
  \E c \in Calls :
    /\ pc[c] = "resolved"
    /\ args[c].state = "xyz"
    /\ optionsAtCall[c].sessionId = "s2"
    /\ "s2" \in DOMAIN storage
    /\ "xyz" \in DOMAIN storage

\* C4: the record written at options.sessionId has keepAlive "false" when
\* options.keepAlive is false and "true" when it is true or unspecified.
C4_KeepAliveDefaultsToTrue ==
  \A c \in Calls :
    Len(writes[c]) >= 2 =>
      LET w == writes[c][2]
          expected == IF optionsAtCall[c].keepAlive = JSBool(FALSE)
                        THEN "false" ELSE "true"
      IN /\ w.key = optionsAtCall[c].sessionId
         /\ w.value.keepAlive = expected
         /\ (w.status = "fulfilled" /\ lastWrite[w.key] = c
              /\ args[c].state # w.key)
              => storage[w.key].keepAlive = expected

\* A call whose options leave keepAlive unspecified stored keepAlive "true".
C4_Witness ==
  \E c \in Calls :
    /\ optionsAtCall[c].keepAlive = UndefinedBool
    /\ Len(writes[c]) >= 2
    /\ writes[c][2].status = "fulfilled"
    /\ args[c].state # writes[c][2].key
    /\ storage[writes[c][2].key].keepAlive = "true"

\* C5 as stated: every returned call on applicable options has handed off
\* the redirect exactly once, with the caller's targetUrl and handleRedirect.
C5_Original ==
  \A c \in Calls :
    (Returned(c) /\ Applicable(optionsAtCall[c])) =>
      /\ Len(redirects[c]) = 1
      /\ redirects[c][1].targetUrl = args[c].targetUrl
      /\ redirects[c][1].options.handleRedirect = opts[c].handleRedirect

\* C5 amended: the redirect is handed off at most once per call, and exactly
\* once by a returned call whose two writes both succeeded; it happens after
\* both writes were issued and passes the call's targetUrl and the options'
\* handleRedirect (as the options object holds it at the hand-off) unchanged.
C5_RedirectOnceWhenWritesSucceed ==
  \A c \in Calls :
    /\ Len(redirects[c]) <= 1
    /\ (Returned(c) /\ BothWritesFulfilled(c)) => Len(redirects[c]) = 1
    /\ pc[c] = "resolved" => Len(redirects[c]) = 1
    /\ redirects[c] # <<>> =>
         /\ Applicable(optionsAtCall[c])
         /\ Len(writes[c]) = 2
         /\ redirects[c][1].targetUrl = args[c].targetUrl
         /\ DOMAIN redirects[c][1].options = { "handleRedirect" }
         /\ redirects[c][1].options.handleRedirect = opts[c].handleRedirect

\* A resolved call handed the caller's custom redirect handler over.
C5_Witness ==
  \E c \in Calls :
    /\ pc[c] = "resolved"
    /\ redirects[c] =
         << [ targetUrl |-> args[c].targetUrl,
              options |-> [ handleRedirect |-> JSFunction("customHandler") ] ] >>

\* C6: whenever the redirector has been invoked by a call, both of the call's
\* storage writes were issued and neither is pending, whatever the order in
\* which they settled.
C6_NoRedirectWhileWritePending ==
  \A c \in Calls :
    redirects[c] # <<>> =>
      /\ Len(writes[c]) = 2
      /\ \A i \in DOMAIN writes[c] : writes[c][i].status # "pending"
      /\ Len(settleOrder[c]) = 2

\* The session write settled before the state write, then the redirect
\* was handed off.
C6_Witness ==
  \E c \in Calls :
    /\ settleOrder[c] = << 2, 1 >>
    /\ redirects[c] # <<>>

\* C7 as stated: once both writes have settled and the call has returned,
\* the redirector has been invoked, also when one of the writes failed.
C7_Original ==
  \A c \in Calls :
    ( /\ Returned(c)
      /\ Len(writes[c]) = 2
      /\ \A i \in DOMAIN writes[c] : writes[c][i].status # "pending" )
    => redirects[c] # <<>>

\* C7 amended: the redirect is gated on write success: a call one of whose
\* writes failed never invokes the redirector and fails with a write's
\* failure; the redirector is invoked only after both writes succeeded.
C7_RedirectGatedOnWriteSuccess ==
  \A c \in Calls :
    /\ SomeWriteRejected(c) =>
         /\ redirects[c] = <<>>
         /\ pc[c] # "resolved"
         /\ pc[c] = "failed" =>
              \E i \in DOMAIN writes[c] :
                /\ writes[c][i].status = "rejected"
                /\ error[c] = WriteError(c, i)
    /\ redirects[c] # <<>> => BothWritesFulfilled(c)

\* Both writes settled, the state write succeeded and the session write
\* failed: the call failed and the redirector was not invoked.
C7_Witness ==
  \E c \in Calls :
    /\ pc[c] = "failed"
    /\ Len(writes[c]) = 2
    /\ writes[c][1].status = "fulfilled"
    /\ writes[c][2].status = "rejected"
    /\ redirects[c] = <<>>

\* The write of call c that was rejected first.
FirstRejected(c) ==
  settleOrder[c][
    CHOOSE n \in DOMAIN settleOrder[c] :
      /\ writes[c][settleOrder[c][n]].status = "rejected"
      /\ \A m \in 1..(n - 1) :
           writes[c][settleOrder[c][m]].status # "rejected" ]

\* Writes are issued at most once each, the redirector is invoked at most
\* once, and every successful write of the call has left a record at its key.
NoRetryNoCleanup(c) ==
  /\ Len(writes[c]) <= 2
  /\ Len(settleOrder[c]) <= Len(writes[c])
  /\ Len(redirects[c]) <= 1
  /\ Len(writes[c]) = 2 =>
       /\ writes[c][1].key = args[c].state
       /\ writes[c][2].key = optionsAtCall[c].sessionId
  /\ \A i \in DOMAIN writes[c] :
       (writes[c][i].status = "fulfilled" /\ lastWrite[writes[c][i].key] = c) =>
         \E j \in DOMAIN writes[c] :
           /\ writes[c][j].status = "fulfilled"
           /\ writes[c][j].key = writes[c][i].key
           /\ storage[writes[c][i].key] = writes[c][j].value

\* C8 as stated: a failed call carries the failure of every write of it that
\* failed, and of the redirector if that failed; nothing is retried and
\* nothing is cleaned up.
C8_Original ==
  \A c \in Calls :
    /\ NoRetryNoCleanup(c)
    /\ \A i \in DOMAIN writes[c] :
         (Returned(c) /\ writes[c][i].status = "rejected") =>
           (pc[c] = "failed" /\ error[c] = WriteError(c, i))
    /\ (pc[c] = "failed" /\ redirects[c] # <<>>) => error[c] = RedirectError(c)

\* C8 amended: a call in which a write or the redirector failed fails with
\* the unmodified failure of the first operation that failed (a second
\* write failure is dropped); nothing is retried and nothing is cleaned up.
C8_FirstFailurePropagates ==
  \A c \in Calls :
    /\ NoRetryNoCleanup(c)
    /\ (Returned(c) /\ SomeWriteRejected(c)) =>
         (pc[c] = "failed" /\ error[c] = WriteError(c, FirstRejected(c)))
    /\ (pc[c] = "failed" /\ redirects[c] # <<>>) => error[c] = RedirectError(c)
    /\ pc[c] = "failed" =>
         \/ error[c] = GuardError /\ writes[c] = <<>>
         \/ SomeWriteRejected(c)
         \/ redirects[c] # <<>>

\* The session write failed after the state write had succeeded: the call
\* failed with the session write's failure and the state record is still
\* in storage.
C8_Witness ==
  \E c \in Calls :
    /\ pc[c] = "failed"
    /\ error[c] = WriteError(c, 2)
    /\ settleOrder[c] = << 1, 2 >>
    /\ writes[c][1].status = "fulfilled"
    /\ args[c].state = "xyz"
    /\ storage["xyz"] = StateRecord(optionsAtCall[c])

\* C9 as stated: in every reachable storage state every state record points
\* to a session identifier that has a correlation record.
C9_Original ==
  \A k \in DOMAIN storage :
    IsStateRecord(storage[k]) =>
      /\ storage[k].sessionId \in DOMAIN storage
      /\ IsSessionRecord(storage[storage[k].sessionId])

\* C9 amended: every state record written by a call whose two writes have
\* both succeeded (or left by an earlier finished flow) points to a session
\* identifier that has a correlation record; state values are not session
\* identifiers.
C9_CorrelationCompleteOnceBothWritesSucceed ==
  \A k \in DOMAIN storage :
    ( /\ IsStateRecord(storage[k])
      /\ \/ lastWrite[k] = "prior"
         \/ lastWrite[k] \in Calls /\ BothWritesFulfilled(lastWrite[k]) )
    => /\ storage[k].sessionId \in DOMAIN storage
       /\ IsSessionRecord(storage[storage[k].sessionId])

\* One call stored both records of session s1 or s2 while the other call's
\* session write failed and left a state record of session s2 without a
\* correlation record.
C9_Witness ==
  \E a, b \in Calls :
    /\ a # b
    /\ BothWritesFulfilled(a)
    /\ lastWrite[args[a].state] = a
    /\ Len(writes[b]) = 2
    /\ writes[b][1].status = "fulfilled"
    /\ writes[b][2].status = "rejected"
    /\ optionsAtCall[b].sessionId = "s2"
    /\ "s2" \notin DOMAIN storage

\* C10: two resolved calls of one session with different states and code
\* verifiers: both state records are in storage, the session's record is the
\* one of the call whose session write was applied last, and the other call's
\* state leads to a codeVerifier that was not issued with it; a call fails
\* only through a failure of its own writes or of its own redirect.
C10_LaterSessionWriteWins ==
  /\ \A a, b \in Calls :
       ( /\ a # b
         /\ pc[a] = "resolved"
         /\ pc[b] = "resolved"
         /\ optionsAtCall[a].sessionId = optionsAtCall[b].sessionId
         /\ args[a].state # args[b].state
         /\ args[a].codeVerifier # args[b].codeVerifier
         /\ optionsAtCall[a].sessionId \in DOMAIN lastWrite
         /\ lastWrite[optionsAtCall[a].sessionId] = a )
       => LET sid == optionsAtCall[a].sessionId IN
          /\ args[a].state \in DOMAIN storage
          /\ args[b].state \in DOMAIN storage
          /\ storage[args[a].state] = [ sessionId |-> sid ]
          /\ storage[args[b].state] = [ sessionId |-> sid ]
          /\ IsSessionRecord(storage[sid])
          /\ storage[sid].codeVerifier = args[a].codeVerifier
          /\ storage[storage[args[b].state].sessionId].codeVerifier
               # args[b].codeVerifier
  /\ \A a, b \in Calls :
       ( /\ a # b
         /\ pc[a] = "resolved"
         /\ pc[b] = "resolved"
         /\ optionsAtCall[a].sessionId = optionsAtCall[b].sessionId )
       => \/ /\ optionsAtCall[a].sessionId \in DOMAIN lastWrite
             /\ lastWrite[optionsAtCall[a].sessionId] = a
          \/ /\ optionsAtCall[b].sessionId \in DOMAIN lastWrite
             /\ lastWrite[optionsAtCall[b].sessionId] = b
  /\ \A c \in Calls :
       pc[c] = "failed" =>
         \/ \E i \in DOMAIN writes[c] :
              /\ writes[c][i].status = "rejected"
              /\ error[c] = WriteError(c, i)
         \/ /\ redirects[c] # <<>>
            /\ error[c] = RedirectError(c)

\* Both calls of session s1 resolved; B's session write was applied last, so
\* A's state xyz now leads to B's code verifier.
C10_Witness ==
  /\ pc["A"] = "resolved"
  /\ pc["B"] = "resolved"
  /\ optionsAtCall["A"].sessionId = "s1"
  /\ optionsAtCall["B"].sessionId = "s1"
  /\ args["A"].state = "xyz"
  /\ args["B"].state = "abc"
  /\ args["A"].codeVerifier = "verifier123"
  /\ args["B"].codeVerifier = "verifier456"
  /\ lastWrite["s1"] = "B"
  /\ storage[storage["xyz"].sessionId].codeVerifier = "verifier456"

-----------------------------------------------------------------------------
\* Further vocabulary

SomeWritePending(c) ==
  \E i \in DOMAIN writes[c] : writes[c][i].status = "pending"

-----------------------------------------------------------------------------
\* C15 as stated: setupRedirectHandler hands control back to its caller,
\* resolving or failing, only when neither of its two writes is pending.
C15_Original ==
  \A c \in Calls : Returned(c) => ~ SomeWritePending(c)

\* C15: setupRedirectHandler never resolves while one of its writes is
\* pending: when it resolved, both writes have succeeded and no write of the
\* call takes effect afterwards. It fails as soon as one write fails, also
\* while the other write is pending: then the failure is the one of a write
\* that was rejected, and the pending write may still take effect after the
\* caller observed the failure.
C15_NoResolveWhileWritePending ==
  \A c \in Calls :
    /\ pc[c] = "resolved" => BothWritesFulfilled(c)
    /\ (pc[c] = "failed" /\ SomeWritePending(c)) =>
         \E i \in DOMAIN writes[c] :
           /\ writes[c][i].status = "rejected"
           /\ error[c] = WriteError(c, i)

\* The call has failed with the failure of its state write while its session
\* write is still pending.
C15_Witness ==
  \E c \in Calls :
    /\ pc[c] = "failed"
    /\ error[c] = WriteError(c, 1)
    /\ writes[c][1].status = "rejected"
    /\ writes[c][2].status = "pending"

-----------------------------------------------------------------------------
\* C16: a call of setupRedirectHandler issues either no write (it failed the
\* applicability check) or exactly two setForUser writes, the first at key
\* state and the second at key options.sessionId; the only change it makes to
\* storage is to put the record of one of these writes at that write's key:
\* no key is ever removed, and a key no call has written keeps the record it
\* had before. While only canHandle has been used, storage is as it was,
\* nothing has been written and the redirector has not been invoked.
C16_StorageTouchedOnlyByTwoWrites ==
  /\ \A c \in Calls :
       /\ Len(writes[c]) \in { 0, 2 }
       /\ writes[c] # <<>> =>
            /\ writes[c][1].key = args[c].state
            /\ writes[c][2].key = optionsAtCall[c].sessionId
       /\ ~ Called(c) =>
            /\ writes[c] = <<>>
            /\ redirects[c] = <<>>
  /\ DOMAIN PriorStorage \subseteq DOMAIN storage
  /\ \A k \in DOMAIN storage :
       IF lastWrite[k] = "prior"
         THEN k \in DOMAIN PriorStorage /\ storage[k] = PriorStorage[k]
         ELSE \E i \in DOMAIN writes[lastWrite[k]] :
                /\ writes[lastWrite[k]][i].status = "fulfilled"
                /\ writes[lastWrite[k]][i].key = k
                /\ writes[lastWrite[k]][i].value = storage[k]
  /\ (\A c \in Calls : ~ Called(c)) => storage = PriorStorage

\* A call resolved after writing two new keys, canHandle was used before it,
\* and the two records that were in storage before are still there.
C16_Witness ==
  \E c \in Calls :
    /\ pc[c] = "resolved"
    /\ canHandleResult[c] # <<>>
    /\ args[c].state = "xyz"
    /\ optionsAtCall[c].sessionId = "s2"
    /\ DOMAIN storage = { "old", "s1", "xyz", "s2" }
    /\ storage["old"] = PriorStorage["old"]
    /\ storage["s1"] = PriorStorage["s1"]

-----------------------------------------------------------------------------
\* C17: the record written at key options.sessionId has exactly the five
\* fields codeVerifier, issuer, redirectUrl, dpop and keepAlive, all strings,
\* and its dpop field is "true" exactly when options.dpop is true (an
\* undefined dpop gives "false"); the record written at key state has exactly
\* the field sessionId. This holds for the write requests and for what a
\* successful write leaves in storage.
C17_RecordShapes ==
  \A c \in Calls :
    writes[c] # <<>> =>
      /\ IsStateRecord(writes[c][1].value)
      /\ IsSessionRecord(writes[c][2].value)
      /\ \A f \in DOMAIN writes[c][2].value : writes[c][2].value[f] \in STRING
      /\ writes[c][2].value.dpop =
           (IF optionsAtCall[c].dpop = JSBool(TRUE) THEN "true" ELSE "false")
      /\ \A k \in DOMAIN storage :
           /\ (lastWrite[k] = c /\ k # args[c].state) =>
                /\ IsSessionRecord(storage[k])
                /\ storage[k].dpop = writes[c][2].value.dpop
           /\ (lastWrite[k] = c /\ k # optionsAtCall[c].sessionId) =>
                IsStateRecord(storage[k])

\* A call with dpop left undefined and keepAlive left undefined has resolved
\* and its session record, with dpop "false" and keepAlive "true", is stored.
C17_Witness ==
  \E c \in Calls :
    /\ pc[c] = "resolved"
    /\ optionsAtCall[c].dpop = UndefinedBool
    /\ optionsAtCall[c].keepAlive = UndefinedBool
    /\ args[c].state # optionsAtCall[c].sessionId
    /\ storage[optionsAtCall[c].sessionId].dpop = "false"
    /\ storage[optionsAtCall[c].sessionId].keepAlive = "true"
    /\ storage[optionsAtCall[c].sessionId].codeVerifier = args[c].codeVerifier

-----------------------------------------------------------------------------
\* C18: the applicability check and both records are evaluated from the
\* options as they are when setupRedirectHandler is called: whatever the
\* caller assigns to the options afterwards, the two writes keep the keys and
\* values computed from the options at the call, a record the call leaves in
\* storage is one of these, and a call whose options were applicable at the
\* call never fails as inapplicable.
C18_OptionsReadBeforeSuspension ==
  \A c \in Calls :
    /\ writes[c] # <<>> =>
         /\ Applicable(optionsAtCall[c])
         /\ \A i \in DOMAIN writes[c] :
              LET issued == IssuedWrites(optionsAtCall[c], args[c].state,
                                         args[c].codeVerifier)[i]
              IN /\ writes[c][i].key = issued.key
                 /\ writes[c][i].value = issued.value
    /\ \A k \in DOMAIN storage :
         lastWrite[k] = c =>
           \E i \in DOMAIN writes[c] :
             LET issued == IssuedWrites(optionsAtCall[c], args[c].state,
                                        args[c].codeVerifier)[i]
             IN k = issued.key /\ storage[k] = issued.value
    /\ (Called(c) /\ Applicable(optionsAtCall[c])) => error[c] # GuardError

\* The session id of the options was changed while the writes were pending,
\* and the call resolved with its session record at the earlier session id.
C18_Witness ==
  \E c \in Calls :
    /\ pc[c] = "resolved"
    /\ canHandleResult[c] = <<>>
    /\ mutations[c] > 0
    /\ opts[c].sessionId # optionsAtCall[c].sessionId
    /\ args[c].state = "xyz"
    /\ lastWrite[optionsAtCall[c].sessionId] = c
    /\ opts[c].sessionId \notin DOMAIN storage
         \/ lastWrite[opts[c].sessionId] = "prior"

-----------------------------------------------------------------------------
\* C19 as stated, its part on success: a call whose two writes both succeeded
\* and that has handed control back has resolved.
C19_Original ==
  \A c \in Calls :
    (Returned(c) /\ BothWritesFulfilled(c)) => pc[c] = "resolved"

\* C19: when every storage write eventually settles, every call of
\* setupRedirectHandler eventually resolves or fails; a call whose two writes
\* both succeeded eventually hands off the redirect, once, and then either
\* resolves with the value undefined or, when the redirector fails, fails
\* with the redirector's failure. As long as a write of a call has not
\* settled the call has not invoked the redirector.
C19_CallsTerminate ==
  /\ \A c \in Calls : Called(c) ~> Returned(c)
  /\ \A c \in Calls :
       BothWritesFulfilled(c) ~>
         /\ Len(redirects[c]) = 1
         /\ \/ pc[c] = "resolved" /\ result[c] = << Undefined >>
            \/ pc[c] = "failed" /\ error[c] = RedirectError(c)
  /\ [](\A c \in Calls :
          /\ SomeWritePending(c) => redirects[c] = <<>>
          /\ pc[c] = "resolved" <=> result[c] = << Undefined >>
          /\ pc[c] = "resolved" => Len(redirects[c]) = 1)

\* Both writes of a call succeeded and the redirect was handed off, but the
\* redirector failed and the call failed with it.
C19_Witness ==
  \E c \in Calls :
    /\ BothWritesFulfilled(c)
    /\ Len(redirects[c]) = 1
    /\ pc[c] = "failed"
    /\ error[c] = RedirectError(c)

-----------------------------------------------------------------------------
\* Vocabulary of the event properties

\* Every listener the emission in progress delivers to has been invoked.
DeliveryComplete ==
  /\ emission.active
  /\ emission.next >
       Len(DeliveryList(emission.snapshot, registry[emission.eventName]))

\* The registrations the emission in progress has invoked, in order.
Invoked == [ n \in DOMAIN invocations |-> invocations[n].registration ]

\* Sequence p is an initial part of sequence q.
IsPrefix(p, q) ==
  /\ Len(p) <= Len(q)
  /\ \A n \in DOMAIN p : p[n] = q[n]

-----------------------------------------------------------------------------
\* C11: while the system emits a SessionTokenSet on NEW_TOKENS, every
\* listener invoked was registered on NEW_TOKENS and receives the emitted
\* object itself; no listener registered on another channel (the deprecated
\* NEW_REFRESH_TOKEN included) is invoked; and when delivery is complete
\* every listener that was registered on NEW_TOKENS has been invoked.
C11_NewTokensReachExactlyNewTokensListeners ==
  (emission.active /\ emission.channel = "NEW_TOKENS") =>
    /\ emission.args \in { << t >> : t \in SessionTokenSets }
    /\ \A n \in DOMAIN invocations :
         /\ regs[invocations[n].registration].channel = "NEW_TOKENS"
         /\ invocations[n].args = emission.args
    /\ DeliveryComplete =>
         { Invoked[n] : n \in DOMAIN Invoked }
           = { emission.atStart[n] : n \in DOMAIN emission.atStart }

\* tokenSet2 was emitted on NEW_TOKENS while a listener was registered on
\* NEW_TOKENS and another on NEW_REFRESH_TOKEN: only the first was invoked,
\* with tokenSet2.
C11_Witness ==
  /\ DeliveryComplete
  /\ emission.channel = "NEW_TOKENS"
  /\ emission.args = << "tokenSet2" >>
  /\ Len(invocations) = 1
  /\ invocations[1].listener = "onNewTokens"
  /\ invocations[1].args = << "tokenSet2" >>
  /\ \E r \in DOMAIN regs :
       /\ regs[r].channel = "NEW_REFRESH_TOKEN"
       /\ ~ regs[r].removed
       /\ regs[r].fired = 0

-----------------------------------------------------------------------------
\* C12: a listener registered with once is invoked by the first emission on
\* its channel after its registration and by no later one: it fired at most
\* once, and once it fired it is no longer in the emitter's list. A listener
\* registered with on or addListener stays in the list until off or
\* removeListener removes it, so every emission on its channel that starts
\* before invokes it: when the delivery of an emission is complete, every
\* registration that was due on the channel when the emission started, the
\* one-shot ones that had not fired and the persistent ones that had not
\* been removed, has been invoked by it.
C12_OnceFiresOncePersistentEveryTime ==
  /\ \A r \in DOMAIN regs :
       LET listed == \E n \in DOMAIN registry[NameOf(regs[r].channel)] :
                       registry[NameOf(regs[r].channel)][n] = r
       IN IF regs[r].once
            THEN /\ regs[r].fired <= 1
                 /\ listed <=> (regs[r].fired = 0 /\ ~ regs[r].removed)
            ELSE /\ regs[r].fired = 0
                 /\ listed <=> ~ regs[r].removed
  /\ emission.active =>
       \A n \in DOMAIN invocations :
         \E m \in DOMAIN emission.atStart :
           emission.atStart[m] = invocations[n].registration
  /\ DeliveryComplete =>
       \A m \in DOMAIN emission.atStart :
         Cardinality({ n \in DOMAIN invocations :
                         invocations[n].registration = emission.atStart[m] })
           = 1

\* A second emission on SESSION_RESTORED is complete: the one-shot listener,
\* which fired in the first emission, was not invoked again, and the
\* persistent listener registered after it was invoked again.
C12_Witness ==
  /\ DeliveryComplete
  /\ emission.channel = "SESSION_RESTORED"
  /\ Len(regs) = 2
  /\ regs[1].once /\ regs[1].fired = 1
  /\ ~ regs[2].once /\ ~ regs[2].removed
  /\ regs[1].channel = "SESSION_RESTORED"
  /\ regs[2].channel = "SESSION_RESTORED"
  /\ emission.atStart = << 2 >>
  /\ Invoked = << 2 >>

-----------------------------------------------------------------------------
\* C13: an emission invokes, one after the other and in the order of their
\* registration, exactly the listeners that were registered on its channel
\* when it started: at every moment the listeners invoked so far are an
\* initial part of that list, and emit returns only when all of it has been
\* invoked. A listener added to the channel during the delivery is therefore
\* not invoked by this emission; it is in the emitter's list and the next
\* emission on the channel starts from that list.
C13_InOrderDeliveryToListenersAtStart ==
  /\ emission.active =>
       /\ IsPrefix(Invoked, emission.atStart)
       /\ \A n \in DOMAIN emission.atStart \ { 1 } :
            emission.atStart[n - 1] < emission.atStart[n]
       /\ DeliveryComplete <=> Invoked = emission.atStart
  /\ ~ emission.active => invocations = <<>>
  /\ \A ch \in ChannelSet :
       (~ emission.active \/ emission.channel # ch \/ DeliveryComplete) =>
         registry[EVENTS[ch]] = RegisteredOn(ch)

\* A persistent listener was registered on a channel when an emission on it
\* started; a second listener was added to the channel during the delivery;
\* the delivery is complete and has invoked the first listener only, and
\* both are in the emitter's list for the next emission.
C13_Witness ==
  /\ DeliveryComplete
  /\ emission.atStart = << 1 >>
  /\ ~ regs[1].once
  /\ Invoked = << 1 >>
  /\ RegisteredOn(emission.channel) = << 1, 2 >>
  /\ registry[emission.eventName] = << 1, 2 >>

-----------------------------------------------------------------------------
\* Listener types a consumer may write: the signature of each channel, the
\* types of its own listeners and a function of no parameters.
ConsumerListenerTypes ==
  { ARGS[ch].listener : ch \in ChannelSet }
    \cup { ListenerType[fn] : fn \in Listeners }
    \cup { FunctionType(<<>>) }

\* The declarations are closed: the five methods declare the same ten pairs
\* of event name and listener signature, in the same order, followed by the
\* fallback; each accepts a listener on a listed event name exactly when the
\* listener fits that channel's signature, and no listener on an unlisted
\* event name; emit accepts no event name.
DeclarationsClosed ==
  /\ \A method \in DOMAIN ISessionEventListener :
       /\ Len(ISessionEventListener[method]) = Len(Channels) + 1
       /\ \A n \in DOMAIN Channels :
            /\ ISessionEventListener[method][n] = ARGS[Channels[n]]
            /\ ARGS[Channels[n]].eventName = { EVENTS[Channels[n]] }
       /\ \A lt \in ConsumerListenerTypes :
            /\ ~ Accepts(method, NameOf(UnlistedChannel), lt)
            /\ \A ch \in ChannelSet :
                 Accepts(method, NameOf(ch), lt)
                   <=> Assignable(lt, ARGS[ch].listener)
  /\ \A name \in EventNames : ~ AcceptsEmit(name)

====
